---- MODULE Spec2Model ----
(***************************************************************************)
(* Model of package kargs (synackd/go-kargs): the tokenizer (doParse,      *)
(* dequote, enquote), the builder parseToStruct and the Kargs collection   *)
(* with its doubly linked list of kargItem and its keyMap of item pointers.*)
(*                                                                         *)
(* A Go string is a sequence of one-character strings.  A *kargItem is an  *)
(* index into the sequence `items` (the heap); 0 is the nil pointer.       *)
(***************************************************************************)
EXTENDS Integers, Sequences, FiniteSets, TLC

VARIABLES input, k, op, pre, nops

vars == <<input, k, op, pre, nops>>

----------------------------------------------------------------------------
(* Bounds of the model. *)

\* longest input string given to NewKargs in SpecParse
MaxLen == 5
\* most tokens in the command line a collection of Spec is parsed from
MaxInitTokens == 3
\* most mutating calls (SetKarg, DeleteKarg, DeleteKargByValue) in a run of Spec
MaxOps == 2

----------------------------------------------------------------------------
(* Characters and strings. *)

SP == " "
TAB == "\t"
DQ == "\""
SQ == "'"
BS == "\\"
EQ == "="
NoQuote == "NUL"

\* unicode.IsSpace, on the characters of the model
IsSpace(c) == c \in {SP, TAB, "\n"}

\* a quotation-mark test that knows the double quote only
IsQuotationMark_DoubleOnly(c) == c = DQ

\* unicode.In(c, unicode.Quotation_Mark), on the characters of the model
IsQuotationMark(c) == c \in {DQ, SQ}

\* strings.ContainsAny(s, chars)
ContainsAny(s, chars) == \E i \in 1..Len(s) : s[i] \in chars

\* strings.Index(s, c) as a 1-based position, 0 when c does not occur
IndexOf(s, c) ==
    IF \E i \in 1..Len(s) : s[i] = c
    THEN CHOOSE i \in 1..Len(s) : s[i] = c /\ \A j \in 1..(i - 1) : s[j] # c
    ELSE 0

\* s[:Len(s)-1]
DropLast(s) == SubSeq(s, 1, Len(s) - 1)

RECURSIVE Join(_, _)
\* strings.Join(ss, sep)
Join(ss, sep) ==
    IF Len(ss) = 0 THEN << >>
    ELSE IF Len(ss) = 1 THEN ss[1]
    ELSE ss[1] \o sep \o Join(Tail(ss), sep)

\* strings.Replace(key, "-", "_", -1)
canonicalizeKey(key) == [i \in 1..Len(key) |-> IF key[i] = "-" THEN "_" ELSE key[i]]

\* checkKey rejecting the space character only
checkKeyFails_SpaceOnly(key) == ContainsAny(key, {SP})

\* checkKey(key) != nil
checkKeyFails(key) == ContainsAny(key, {SP, "\n", TAB})

----------------------------------------------------------------------------
(* dequote *)

\* line[1 : len(line)-1] with len(line) = 1 is out of range: a run-time panic
dequotePanics(line) == Len(line) = 1 /\ line[1] \in {DQ, SQ}

RECURSIVE dequoteLoop(_, _, _, _, _)
\* the loop of dequote over the bytes of line, from position i
dequoteLoop(line, i, quote, context, newLine) ==
    IF i > Len(line) THEN newLine
    ELSE LET c == line[i] IN
      IF c = BS THEN
          dequoteLoop(line, i + 1, quote, Append(context, c), Append(newLine, c))
      ELSE IF c = quote THEN
          IF Len(context) > 0 THEN
              LET last == context[Len(context)] IN
              IF last = c THEN
                  dequoteLoop(line, i + 1, quote, DropLast(context), Append(newLine, c))
              ELSE IF last = BS THEN
                  dequoteLoop(line, i + 1, quote, << >>, Append(DropLast(newLine), c))
              ELSE
                  dequoteLoop(line, i + 1, quote, context, Append(newLine, c))
          ELSE
              dequoteLoop(line, i + 1, quote, Append(context, c), Append(newLine, c))
      ELSE IF Len(context) > 0 /\ context[Len(context)] = BS THEN
          dequoteLoop(line, i + 1, quote, << >>, Append(newLine, c))
      ELSE
          dequoteLoop(line, i + 1, quote, context, Append(newLine, c))

\* dequote(line), where it does not panic
dequote(line) ==
    IF Len(line) = 0 THEN line
    ELSE IF line[1] \in {DQ, SQ}
         THEN dequoteLoop(SubSeq(line, 2, Len(line) - 1), 1, line[1], << >>, << >>)
         ELSE dequoteLoop(line, 1, NoQuote, << >>, << >>)

----------------------------------------------------------------------------
(* enquote *)

RECURSIVE QuoteBody(_)
\* the escapes of fmt.Sprintf("%q", s) on the characters of the model
QuoteBody(s) ==
    IF Len(s) = 0 THEN << >>
    ELSE LET c == s[1] IN
         (IF c = DQ THEN <<BS, DQ>>
          ELSE IF c = BS THEN <<BS, BS>>
          ELSE IF c = TAB THEN <<BS, "t">>
          ELSE IF c = "\n" THEN <<BS, "n">>
          ELSE <<c>>) \o QuoteBody(Tail(s))

enquote(line) ==
    IF ContainsAny(line, {SP})
    THEN IF line[1] \in {DQ, SQ} /\ line[Len(line)] \in {DQ, SQ}
         THEN line
         ELSE <<DQ>> \o QuoteBody(line) \o <<DQ>>
    ELSE line

----------------------------------------------------------------------------
(* doParse *)

RECURSIVE FieldsFunc(_, _, _, _, _)
\* strings.FieldsFunc(input, quotedFieldsCheck): the scan from position i with
\* the closure's lastQuote, the open field cur and the fields acc found so far
FieldsFunc(s, i, lastQuote, cur, acc) ==
    IF i > Len(s) THEN (IF Len(cur) > 0 THEN Append(acc, cur) ELSE acc)
    ELSE LET c == s[i] IN
      IF c = lastQuote THEN
          FieldsFunc(s, i + 1, NoQuote, Append(cur, c), acc)
      ELSE IF lastQuote # NoQuote THEN
          FieldsFunc(s, i + 1, lastQuote, Append(cur, c), acc)
      ELSE IF IsQuotationMark(c) THEN
          FieldsFunc(s, i + 1, c, Append(cur, c), acc)
      ELSE IF IsSpace(c) THEN
          FieldsFunc(s, i + 1, lastQuote, << >>,
                     IF Len(cur) > 0 THEN Append(acc, cur) ELSE acc)
      ELSE
          FieldsFunc(s, i + 1, lastQuote, Append(cur, c), acc)

\* the key split off at the last '=' of the flag instead of the first
FlagKey_LastEq(flag) ==
    IF \A i \in 1..Len(flag) : flag[i] # EQ THEN flag
    ELSE SubSeq(flag, 1, (CHOOSE i \in 1..Len(flag) :
                             flag[i] = EQ /\ \A j \in (i + 1)..Len(flag) : flag[j] # EQ) - 1)

\* the key and the value doParse splits a flag into
FlagKey(flag) ==
    LET split == IndexOf(flag, EQ) IN
    IF split = 0 THEN flag ELSE SubSeq(flag, 1, split - 1)

FlagValue(flag) ==
    LET split == IndexOf(flag, EQ) IN
    IF split = 0 THEN << >> ELSE SubSeq(flag, split + 1, Len(flag))

\* the flags doParse hands to its handler, in order
doParseFlags(in) == FieldsFunc(in, 1, NoQuote, << >>, << >>)

\* doParse panics when dequote does on some flag's value
doParsePanics(in) ==
    \E i \in 1..Len(doParseFlags(in)) : dequotePanics(FlagValue(doParseFlags(in)[i]))

----------------------------------------------------------------------------
(* Kargs *)

Nil == 0

EmptyKargs == [items |-> << >>, list |-> Nil, last |-> Nil,
               keyMap |-> [x \in {} |-> << >>], numParams |-> 0]

\* k.keyMap[key]: the nil slice when key is not in the map
Bucket(keyMap, key) == IF key \in DOMAIN keyMap THEN keyMap[key] ELSE << >>

\* an assignment that starts the map afresh, keeping no other bucket
MapSet_Fresh(keyMap, key, b) == [x \in {key} |-> b]

\* k.keyMap[key] = b
MapSet(keyMap, key, b) ==
    [x \in (DOMAIN keyMap) \cup {key} |-> IF x = key THEN b ELSE keyMap[x]]

\* delete(k.keyMap, key)
MapDelete(keyMap, key) == [x \in (DOMAIN keyMap) \ {key} |-> keyMap[x]]

\* parseHandler with Raw rebuilt from the key and the dequoted value instead of
\* kept verbatim
parseHandler_RebuiltRaw(kk, flag) ==
    LET key == FlagKey(flag)
        canonicalKey == canonicalizeKey(key)
        newKarg == [CanonicalKey |-> canonicalKey, Key |-> key,
                    Raw |-> IF IndexOf(flag, EQ) = 0 THEN key
                            ELSE key \o <<EQ>> \o dequote(FlagValue(flag)),
                    Value |-> dequote(FlagValue(flag))]
        new == Len(kk.items) + 1
        llTracker == kk.last
        linked == IF llTracker = Nil THEN kk.items
                  ELSE [kk.items EXCEPT ![llTracker].next = new]
    IN [items |-> Append(linked, [karg |-> newKarg, next |-> Nil, prev |-> llTracker]),
        list |-> IF llTracker = Nil THEN new ELSE kk.list,
        last |-> new,
        keyMap |-> MapSet(kk.keyMap, canonicalKey,
                          Append(Bucket(kk.keyMap, canonicalKey), new)),
        numParams |-> kk.numParams + 1]

\* the handler parseToStruct passes to doParse, applied to one flag
parseHandler(kk, flag) ==
    LET key == FlagKey(flag)
        canonicalKey == canonicalizeKey(key)
        newKarg == [CanonicalKey |-> canonicalKey, Key |-> key, Raw |-> flag,
                    Value |-> dequote(FlagValue(flag))]
        new == Len(kk.items) + 1
        llTracker == kk.last
        linked == IF llTracker = Nil THEN kk.items
                  ELSE [kk.items EXCEPT ![llTracker].next = new]
    IN [items |-> Append(linked, [karg |-> newKarg, next |-> Nil, prev |-> llTracker]),
        list |-> IF llTracker = Nil THEN new ELSE kk.list,
        last |-> new,
        keyMap |-> MapSet(kk.keyMap, canonicalKey,
                          Append(Bucket(kk.keyMap, canonicalKey), new)),
        numParams |-> kk.numParams + 1]

RECURSIVE parseFold(_, _)
parseFold(kk, flags) ==
    IF Len(flags) = 0 THEN kk
    ELSE parseFold(parseHandler(kk, flags[1]), Tail(flags))

\* parseToStruct(input), where doParse does not panic
parseToStruct(in) == parseFold(EmptyKargs, doParseFlags(in))

RECURSIVE WalkFrom(_, _, _)
\* the items met from p by following next, at most fuel of them
WalkFrom(items, p, fuel) ==
    IF p = Nil \/ fuel = 0 THEN << >>
    ELSE <<p>> \o WalkFrom(items, items[p].next, fuel - 1)

\* for llTracker := k.list; llTracker != nil; llTracker = llTracker.next
Walk(kk) == WalkFrom(kk.items, kk.list, Len(kk.items) + 1)

\* the kargs of the items the walk meets, in order
KargsOf(kk) == [i \in 1..Len(Walk(kk)) |-> kk.items[Walk(kk)[i]].karg]

\* Kargs.String
String(kk) == Join([i \in 1..Len(KargsOf(kk)) |-> KargsOf(kk)[i].Raw], <<SP>>)

----------------------------------------------------------------------------
(* The linked list: remove and replace. *)

\* remove(p), p not nil
remove(items, p) ==
    LET a == IF items[p].prev # Nil
             THEN [items EXCEPT ![items[p].prev].next = items[p].next]
             ELSE items
    IN IF a[p].next # Nil
       THEN [a EXCEPT ![a[p].next].prev = a[p].prev]
       ELSE a

\* replace with the successor's next, not its prev, set to newK
replace_NextForPrev(items, oldK, newK) ==
    LET a == [items EXCEPT ![newK].prev = items[oldK].prev,
                           ![newK].next = items[oldK].next]
        b == IF a[oldK].prev # Nil THEN [a EXCEPT ![a[oldK].prev].next = newK] ELSE a
        c == IF b[oldK].next # Nil THEN [b EXCEPT ![b[oldK].next].next = newK] ELSE b
    IN [c EXCEPT ![oldK].prev = Nil, ![oldK].next = Nil]

\* replace(oldK, newK), neither nil
replace(items, oldK, newK) ==
    LET a == [items EXCEPT ![newK].prev = items[oldK].prev,
                           ![newK].next = items[oldK].next]
        b == IF a[oldK].prev # Nil THEN [a EXCEPT ![a[oldK].prev].next = newK] ELSE a
        c == IF b[oldK].next # Nil THEN [b EXCEPT ![b[oldK].next].prev = newK] ELSE b
    IN [c EXCEPT ![oldK].prev = Nil, ![oldK].next = Nil]

----------------------------------------------------------------------------
(* The operations of Kargs.  Each is the collection after the call and the *)
(* error returned: [k, err].                                               *)

\* GetKarg looking the key up as passed, not canonicalized
GetKarg_RawKey(kk, key) ==
    LET piPtrs == Bucket(kk.keyMap, key) IN
    [vals |-> [i \in 1..Len(piPtrs) |-> kk.items[piPtrs[i]].karg.Value],
     present |-> key \in DOMAIN kk.keyMap]

\* Kargs.GetKarg
GetKarg(kk, key) ==
    LET piPtrs == Bucket(kk.keyMap, canonicalizeKey(key)) IN
    [vals |-> [i \in 1..Len(piPtrs) |-> kk.items[piPtrs[i]].karg.Value],
     present |-> canonicalizeKey(key) \in DOMAIN kk.keyMap]

\* Kargs.ContainsKarg
ContainsKarg(kk, key) == GetKarg(kk, key).present

RECURSIVE DeleteKargLoop(_, _)
\* the loop of DeleteKarg over the bucket: remove(ptr); k.numParams--
DeleteKargLoop(kk, ptrs) ==
    IF Len(ptrs) = 0 THEN kk
    ELSE DeleteKargLoop([kk EXCEPT !.items = remove(kk.items, ptrs[1]),
                                   !.numParams = kk.numParams - 1],
                        Tail(ptrs))

\* Kargs.DeleteKarg
DeleteKarg(kk, key) ==
    LET canonicalKey == canonicalizeKey(key) IN
    IF key \in DOMAIN kk.keyMap
    THEN LET done == DeleteKargLoop(kk, Bucket(kk.keyMap, canonicalKey)) IN
         [k |-> [done EXCEPT !.keyMap = MapDelete(done.keyMap, canonicalKey)],
          err |-> "nil"]
    ELSE [k |-> kk, err |-> "ErrNotExists"]

\* the bucket DeleteKargByValue leaves after removing the entry at 0-based idx
BucketWithout(b, idx) ==
    IF Len(b) = 1 THEN << >>
    ELSE IF idx = Len(b) - 1 THEN LET l == Len(b) - 1 IN SubSeq(b, 1, l - 1)
    ELSE IF idx = 0 THEN Tail(b)
    ELSE SubSeq(b, 1, idx) \o SubSeq(b, idx + 2, Len(b))

\* DeleteKargByValue counting the removal before the scan finds the value
DeleteKargByValue_CountFirst(kk, key, value) ==
    LET canonicalKey == canonicalizeKey(key)
        b == Bucket(kk.keyMap, canonicalKey)
        hits == {i \in 1..Len(b) : kk.items[b[i]].karg.Value = value}
        counted == [kk EXCEPT !.numParams = kk.numParams - 1]
    IN IF key \in DOMAIN kk.keyMap
       THEN IF hits # {}
            THEN LET i == CHOOSE i \in hits : \A j \in hits : i <= j IN
                 [k |-> [counted EXCEPT !.items = remove(kk.items, b[i]),
                                        !.keyMap = MapSet(kk.keyMap, canonicalKey,
                                                          BucketWithout(b, i - 1))],
                  err |-> "nil"]
            ELSE [k |-> counted, err |-> "ErrNotExists"]
       ELSE [k |-> kk, err |-> "ErrNotExists"]

\* Kargs.DeleteKargByValue
DeleteKargByValue(kk, key, value) ==
    LET canonicalKey == canonicalizeKey(key)
        b == Bucket(kk.keyMap, canonicalKey)
        hits == {i \in 1..Len(b) : kk.items[b[i]].karg.Value = value}
    IN IF key \in DOMAIN kk.keyMap
       THEN IF hits # {}
            THEN LET i == CHOOSE i \in hits : \A j \in hits : i <= j IN
                 [k |-> [kk EXCEPT !.items = remove(kk.items, b[i]),
                                   !.keyMap = MapSet(kk.keyMap, canonicalKey,
                                                     BucketWithout(b, i - 1)),
                                   !.numParams = kk.numParams - 1],
                  err |-> "nil"]
            ELSE [k |-> kk, err |-> "ErrNotExists"]
       ELSE [k |-> kk, err |-> "ErrNotExists"]

\* the Karg SetKarg builds
SetKargNew(key, value) ==
    [CanonicalKey |-> canonicalizeKey(key),
     Key |-> enquote(key),
     Raw |-> IF value = << >> THEN enquote(key) ELSE key \o <<EQ>> \o enquote(value),
     Value |-> dequote(value)]

RECURSIVE SetKargLoop(_, _, _, _, _)
\* the loop of SetKarg over ptrList from 0-based pidx, new the new item
SetKargLoop(kk, ptrList, pidx, new, canonicalKey) ==
    IF pidx >= Len(ptrList) THEN kk
    ELSE LET ptr == ptrList[pidx + 1] IN
         IF ptr = Nil
         THEN SetKargLoop(kk, ptrList, pidx + 1, new, canonicalKey)
         ELSE IF pidx = 0
         THEN SetKargLoop(
                [kk EXCEPT !.last = IF kk.items[ptr].next = Nil THEN new ELSE kk.last,
                           !.list = IF kk.items[ptr].prev = Nil THEN new ELSE kk.list,
                           !.items = replace(kk.items, ptr, new),
                           !.keyMap = MapSet(kk.keyMap, canonicalKey, <<new>>)],
                ptrList, pidx + 1, new, canonicalKey)
         ELSE SetKargLoop(
                [kk EXCEPT !.items = remove(kk.items, ptr),
                           !.numParams = kk.numParams - 1],
                ptrList, pidx + 1, new, canonicalKey)

\* Kargs.SetKarg
SetKarg(kk, key, value) ==
    IF checkKeyFails(key) THEN [k |-> kk, err |-> "ErrInvalidKey"]
    ELSE IF dequotePanics(value) THEN [k |-> kk, err |-> "panic"]
    ELSE
      LET canonicalKey == canonicalizeKey(key)
          new == Len(kk.items) + 1
          k0 == [kk EXCEPT !.items = Append(kk.items,
                     [karg |-> SetKargNew(key, value), next |-> Nil, prev |-> Nil])]
      IN IF canonicalKey \in DOMAIN kk.keyMap
         THEN [k |-> SetKargLoop(k0, kk.keyMap[canonicalKey], 0, new, canonicalKey),
               err |-> "nil"]
         ELSE [k |-> [k0 EXCEPT
                        !.keyMap = MapSet(kk.keyMap, canonicalKey, <<new>>),
                        !.list = IF kk.list = Nil THEN new ELSE kk.list,
                        !.last = new,
                        !.items = IF kk.list = Nil THEN k0.items
                                  ELSE [k0.items EXCEPT ![kk.last].next = new,
                                                        ![new].prev = kk.last],
                        !.numParams = kk.numParams + 1],
               err |-> "nil"]

----------------------------------------------------------------------------
(* FlagsForModule *)

\* strings.HasPrefix(s, prefix)
HasPrefix(s, prefix) ==
    Len(s) >= Len(prefix) /\ SubSeq(s, 1, Len(prefix)) = prefix

\* strings.TrimPrefix(s, prefix)
TrimPrefix(s, prefix) ==
    IF HasPrefix(s, prefix) THEN SubSeq(s, Len(prefix) + 1, Len(s)) ELSE s

\* the prefix without the dot that ends a module's name
ModulePrefix_NoDot(name) == canonicalizeKey(name)

\* prefix := canonicalizeKey(name) + "."
ModulePrefix(name) == canonicalizeKey(name) \o <<".">>

RECURSIVE FlagsLoop(_, _, _, _, _, _)
\* the loop of FlagsForModule over the list, from its i-th item
FlagsLoop(kargs, i, flagsAdded, first, ret, prefix) ==
    IF i > Len(kargs) THEN ret
    ELSE LET canonicalFlag == canonicalizeKey(kargs[i].Key)
             flag == IF kargs[i].Value = << >>
                     THEN TrimPrefix(canonicalFlag, prefix)
                     ELSE TrimPrefix(canonicalFlag, prefix) \o <<EQ>> \o kargs[i].Value
         IN IF canonicalFlag \notin flagsAdded /\ HasPrefix(canonicalFlag, prefix)
            THEN FlagsLoop(kargs, i + 1, flagsAdded \cup {canonicalFlag}, FALSE,
                           (IF first THEN ret ELSE ret \o <<SP>>) \o flag, prefix)
            ELSE FlagsLoop(kargs, i + 1, flagsAdded, first, ret, prefix)

\* Kargs.FlagsForModule
FlagsForModule(kk, name) ==
    FlagsLoop(KargsOf(kk), 1, {}, TRUE, << >>, ModulePrefix(name))

----------------------------------------------------------------------------
(* SpecParse: NewKargs on every input string of at most MaxLen characters. *)

ParseAlphabet == {"a", "-", EQ, SP, TAB, DQ, SQ, BS}

RECURSIVE StringsUpTo(_, _)
StringsUpTo(alphabet, n) ==
    IF n = 0 THEN {<< >>}
    ELSE LET shorter == StringsUpTo(alphabet, n - 1) IN
         shorter \cup {Append(s, c) : s \in {t \in shorter : Len(t) = n - 1}, c \in alphabet}

NoOp == [name |-> "none", key |-> << >>, value |-> << >>, err |-> "nil"]

\* no call has panicked: the program is still running
Running == op.err # "panic"

InitParse ==
    /\ input \in StringsUpTo(ParseAlphabet, MaxLen)
    /\ k = EmptyKargs
    /\ pre = EmptyKargs
    /\ op = NoOp
    /\ nops = 0

\* k := NewKargs(input)
NewKargs ==
    /\ op.name = "none"
    /\ op' = [name |-> "NewKargs", key |-> << >>, value |-> << >>,
              err |-> IF doParsePanics(input) THEN "panic" ELSE "nil"]
    /\ k' = IF doParsePanics(input) THEN k ELSE parseToStruct(input)
    /\ UNCHANGED <<input, pre, nops>>

NextParse == NewKargs

SpecParse == InitParse /\ [][NextParse]_vars

----------------------------------------------------------------------------
(* SpecModule: NewKargs on a command line of module flags, then            *)
(* FlagsForModule.                                                         *)

\* most tokens in a command line of SpecModule
MaxFlagTokens == 3

\* m-n.x  m_n.x=v  m_n.y-z=w  m.x=v  m-n
FlagTokens == {<<"m", "-", "n", ".", "x">>,
               <<"m", "_", "n", ".", "x", EQ, "v">>,
               <<"m", "_", "n", ".", "y", "-", "z", EQ, "w">>,
               <<"m", ".", "x", EQ, "v">>,
               <<"m", "-", "n">>}

RECURSIVE FlagTokenLists(_)
FlagTokenLists(n) ==
    IF n = 0 THEN {<< >>}
    ELSE LET shorter == FlagTokenLists(n - 1) IN
         shorter \cup {Append(l, t) : l \in {x \in shorter : Len(x) = n - 1},
                                      t \in FlagTokens}

\* the module names asked for: m-n  m_n  m  x
ModuleNames == {<<"m", "-", "n">>, <<"m", "_", "n">>, <<"m">>, <<"x">>}

InitModule ==
    /\ input \in {Join(l, <<SP>>) : l \in FlagTokenLists(MaxFlagTokens)}
    /\ k = EmptyKargs
    /\ pre = EmptyKargs
    /\ op = NoOp
    /\ nops = 0

\* flags := k.FlagsForModule(name); op.value is the string returned
FlagsForModuleCall ==
    /\ op.name \in {"NewKargs", "FlagsForModule"}
    /\ Running
    /\ \E name \in ModuleNames :
         op' = [name |-> "FlagsForModule", key |-> name,
                value |-> FlagsForModule(k, name), err |-> "nil"]
    /\ UNCHANGED <<input, k, pre, nops>>

NextModule == NewKargs \/ FlagsForModuleCall

SpecModule == InitModule /\ [][NextModule]_vars

----------------------------------------------------------------------------
(* Spec: a collection parsed from a command line, then any calls of        *)
(* SetKarg, DeleteKarg and DeleteKargByValue.                              *)

\* the tokens of the command lines: a=v  a=w  b-c=v
InitTokens == {<<"a", EQ, "v">>, <<"a", EQ, "w">>, <<"b", "-", "c", EQ, "v">>}

RECURSIVE TokenLists(_)
TokenLists(n) ==
    IF n = 0 THEN {<< >>}
    ELSE LET shorter == TokenLists(n - 1) IN
         shorter \cup {Append(l, t) : l \in {x \in shorter : Len(x) = n - 1},
                                      t \in InitTokens}

InitLines == {Join(l, <<SP>>) : l \in TokenLists(MaxInitTokens)}

\* the keys the calls are made with: a  b-c  b_c  and the invalid "a b"
Keys == {<<"a">>, <<"b", "-", "c">>, <<"b", "_", "c">>, <<"a", SP, "b">>}

\* the values the calls are made with: ""  v  w
Values == {<< >>, <<"v">>, <<"w">>}

\* SetKarg is also called with the invalid keys "a<tab>" and "a<newline>"
SetKeys == Keys \cup {<<"a", TAB>>, <<"a", "\n">>, <<"a", EQ, "b">>}

\* and with the value that is one double quote
SetValues == Values \cup {<<DQ>>, <<"v", SP, BS>>}

Init ==
    /\ input \in InitLines
    /\ k = parseToStruct(input)
    /\ pre = parseToStruct(input)
    /\ op = [name |-> "NewKargs", key |-> << >>, value |-> << >>, err |-> "nil"]
    /\ nops = 0

\* err := k.SetKarg(key, value)
SetKargCall ==
    /\ Running
    /\ nops < MaxOps
    /\ \E key \in SetKeys, value \in SetValues :
         /\ k' = SetKarg(k, key, value).k
         /\ op' = [name |-> "SetKarg", key |-> key, value |-> value,
                   err |-> SetKarg(k, key, value).err]
    /\ pre' = k
    /\ nops' = nops + 1
    /\ UNCHANGED input

\* err := k.DeleteKarg(key)
DeleteKargCall ==
    /\ Running
    /\ nops < MaxOps
    /\ \E key \in Keys :
         /\ k' = DeleteKarg(k, key).k
         /\ op' = [name |-> "DeleteKarg", key |-> key, value |-> << >>,
                   err |-> DeleteKarg(k, key).err]
    /\ pre' = k
    /\ nops' = nops + 1
    /\ UNCHANGED input

\* err := k.DeleteKargByValue(key, value)
DeleteKargByValueCall ==
    /\ Running
    /\ nops < MaxOps
    /\ \E key \in Keys, value \in Values :
         /\ k' = DeleteKargByValue(k, key, value).k
         /\ op' = [name |-> "DeleteKargByValue", key |-> key, value |-> value,
                   err |-> DeleteKargByValue(k, key, value).err]
    /\ pre' = k
    /\ nops' = nops + 1
    /\ UNCHANGED input

Next == SetKargCall \/ DeleteKargCall \/ DeleteKargByValueCall

Spec == Init /\ [][Next]_vars

----------------------------------------------------------------------------
(* C1 *)

Parsed == op.name = "NewKargs" /\ op.err = "nil"

RECURSIVE LastQuoteAfter(_, _)
\* the quotation mark of the quoted span open after the first i characters of s
LastQuoteAfter(s, i) ==
    IF i = 0 THEN NoQuote
    ELSE LET q == LastQuoteAfter(s, i - 1) IN
         IF s[i] = q THEN NoQuote
         ELSE IF q # NoQuote THEN q
         ELSE IF s[i] \in {"\"", "'"} THEN s[i]
         ELSE q

\* character i of s is whitespace outside every quoted span
IsSeparator(s, i) == IsSpace(s[i]) /\ LastQuoteAfter(s, i - 1) = NoQuote

\* the tokens of s are separated by exactly one space character each, and no
\* separator leads or trails
SingleSpaced(s) ==
    \A i \in 1..Len(s) :
        IsSeparator(s, i) =>
            /\ s[i] = SP
            /\ i # 1
            /\ i # Len(s)
            /\ ~IsSeparator(s, i + 1)

\* C1 as stated: for any input string, String() of the collection NewKargs
\* returns is the input, character for character.
C1_RoundTripAnyInput == Parsed => String(k) = input

\* C1 amended: for any input string whose tokens are separated by exactly one
\* space character, with no leading or trailing separator, String() of the
\* collection NewKargs returns is the input, character for character.
C1_RoundTripSingleSpaced == (Parsed /\ SingleSpaced(input)) => String(k) = input

\* a parsed input of two tokens, one with a value, that is single-spaced
C1_Witness ==
    /\ Parsed
    /\ SingleSpaced(input)
    /\ k.numParams = 2
    /\ \E i \in 1..Len(input) : input[i] = EQ
    /\ String(k) = input

----------------------------------------------------------------------------
(* C2 .. C10: the calls of Spec.  op is the last call, pre the collection  *)
(* before it and k the collection after it.                                *)

\* the number of arguments of canonical key ck in the sequence String() walks
Occurrences(kk, ck) ==
    Cardinality({i \in 1..Len(KargsOf(kk)) : KargsOf(kk)[i].CanonicalKey = ck})

RECURSIVE DropKey(_, _)
\* kargs without the arguments of canonical key ck
DropKey(kargs, ck) ==
    IF Len(kargs) = 0 THEN << >>
    ELSE IF kargs[1].CanonicalKey = ck THEN DropKey(Tail(kargs), ck)
    ELSE <<kargs[1]>> \o DropKey(Tail(kargs), ck)

RECURSIVE ReplaceFirstDropOthers(_, _, _)
\* kargs with the first argument of key ck replaced by new and the others dropped
ReplaceFirstDropOthers(kargs, ck, new) ==
    IF Len(kargs) = 0 THEN << >>
    ELSE IF kargs[1].CanonicalKey = ck THEN <<new>> \o DropKey(Tail(kargs), ck)
    ELSE <<kargs[1]>> \o ReplaceFirstDropOthers(Tail(kargs), ck, new)

RECURSIVE DropFirstMatch(_, _, _)
\* kargs without the first argument of key ck and value v
DropFirstMatch(kargs, ck, v) ==
    IF Len(kargs) = 0 THEN << >>
    ELSE IF kargs[1].CanonicalKey = ck /\ kargs[1].Value = v THEN Tail(kargs)
    ELSE <<kargs[1]>> \o DropFirstMatch(Tail(kargs), ck, v)

\* the values of the arguments of key ck in kargs, in order
ValuesOfKey(kargs, ck) ==
    LET kept == SelectSeq(kargs, LAMBDA a : a.CanonicalKey = ck)
    IN [i \in 1..Len(kept) |-> kept[i].Value]

\* String() of a sequence of kargs
StringOf(kargs) == Join([i \in 1..Len(kargs) |-> kargs[i].Raw], <<SP>>)

SetOk == op.name = "SetKarg" /\ op.err = "nil"
DeleteOk == op.name = "DeleteKarg" /\ op.err = "nil"
DeleteByValueOk == op.name = "DeleteKargByValue" /\ op.err = "nil"
OpKey == canonicalizeKey(op.key)

\* C2: after SetKarg(k, v) returns nil, with v free of quotes and backslashes,
\* GetKarg(k) returns ([v], true).
C2_GetAfterSet ==
    (SetOk /\ ~ContainsAny(op.value, {DQ, SQ, BS})) =>
        GetKarg(k, op.key) = [vals |-> <<op.value>>, present |-> TRUE]

\* C3: SetKarg on a key with n >= 1 occurrences replaces the first in place,
\* removes the others, keeps the rest in order, and the count drops by n - 1.
C3_SetCollapses ==
    (SetOk /\ Occurrences(pre, OpKey) >= 1) =>
        /\ String(k) = StringOf(ReplaceFirstDropOthers(KargsOf(pre), OpKey,
                                                       SetKargNew(op.key, op.value)))
        /\ k.numParams = pre.numParams - (Occurrences(pre, OpKey) - 1)

\* C4: SetKarg on a key with no occurrences makes the new argument the last
\* element of the serialized sequence, and the count grows by 1.
C4_SetAppends ==
    (SetOk /\ Occurrences(pre, OpKey) = 0) =>
        /\ String(k) = StringOf(Append(KargsOf(pre), SetKargNew(op.key, op.value)))
        /\ k.numParams = pre.numParams + 1

\* C5: after DeleteKarg(k) returns nil no argument of key k is left in the
\* sequence String() walks, the others keep their order, and the count has
\* dropped by the number of removed occurrences.
C5_DeleteRemovesAll ==
    DeleteOk =>
        /\ KargsOf(k) = DropKey(KargsOf(pre), OpKey)
        /\ k.numParams = pre.numParams - Occurrences(pre, OpKey)

\* C6: after DeleteKarg(k) returns nil ContainsKarg(k) is false and GetKarg(k)
\* is not present; DeleteKarg on a key with no occurrences returns ErrNotExists.
C6_DeleteThenAbsent ==
    /\ DeleteOk => (~ContainsKarg(k, op.key) /\ ~GetKarg(k, op.key).present)
    /\ (op.name = "DeleteKarg" /\ Occurrences(pre, OpKey) = 0) =>
           op.err = "ErrNotExists"

\* C7: '-' and '_' are interchangeable in the key of every lookup and mutation:
\* two spellings of one canonical key give the same ContainsKarg and GetKarg,
\* the same outcome and resulting collection from DeleteKarg and
\* DeleteKargByValue, and SetKarg replaces the same occurrences.
C7_DashUnderscore ==
    \A k1 \in Keys, k2 \in Keys :
        canonicalizeKey(k1) = canonicalizeKey(k2) =>
            /\ ContainsKarg(k, k1) = ContainsKarg(k, k2)
            /\ GetKarg(k, k1) = GetKarg(k, k2)
            /\ DeleteKarg(k, k1) = DeleteKarg(k, k2)
            /\ \A v \in Values :
                 /\ DeleteKargByValue(k, k1, v) = DeleteKargByValue(k, k2, v)
                 /\ SetKarg(k, k1, v).err = SetKarg(k, k2, v).err
                 /\ Walk(SetKarg(k, k1, v).k) = Walk(SetKarg(k, k2, v).k)
                 /\ SetKarg(k, k1, v).k.keyMap = SetKarg(k, k2, v).k.keyMap

\* C8: a successful DeleteKargByValue(k, v) removes exactly the first occurrence
\* of k with value v; the other occurrences of k stay in the serialized
\* sequence and in GetKarg(k), in order, and the count drops by 1.
C8_DeleteByValueRemovesOne ==
    DeleteByValueOk =>
        /\ KargsOf(k) = DropFirstMatch(KargsOf(pre), OpKey, op.value)
        /\ GetKarg(k, op.key).vals =
               ValuesOfKey(DropFirstMatch(KargsOf(pre), OpKey, op.value), OpKey)
        /\ k.numParams = pre.numParams - 1

\* C9: DeleteKargByValue(k, v) returns ErrNotExists exactly when no argument in
\* the sequence has canonical key k and value v, and nil otherwise.
C9_DeleteByValueError ==
    op.name = "DeleteKargByValue" =>
        /\ op.err \in {"nil", "ErrNotExists"}
        /\ op.err = "ErrNotExists" <=>
               ~\E i \in 1..Len(KargsOf(pre)) :
                     /\ KargsOf(pre)[i].CanonicalKey = OpKey
                     /\ KargsOf(pre)[i].Value = op.value

\* C10: a call that returns ErrInvalidKey or ErrNotExists leaves the sequence,
\* the head and tail pointers, every bucket and the count as they were.
C10_ErrorLeavesUnchanged ==
    op.err \in {"ErrInvalidKey", "ErrNotExists"} => k = pre

\* DeleteKargByValue scanned a non-empty bucket, found no such value and failed
C10_Witness ==
    /\ op.name = "DeleteKargByValue"
    /\ op.err = "ErrNotExists"
    /\ op.key \in DOMAIN pre.keyMap
    /\ Len(pre.keyMap[op.key]) >= 2
    /\ k = pre

----------------------------------------------------------------------------
(* C11 *)

\* C11: a SetKarg that returns, returns ErrInvalidKey exactly when the key
\* holds a space, a tab or a newline, and no error other than that one.
C11_SetErrorIffWhitespace ==
    (op.name = "SetKarg" /\ Running) =>
        /\ op.err = "ErrInvalidKey" <=>
               \E i \in 1..Len(op.key) : op.key[i] \in {" ", "\t", "\n"}
        /\ op.err \in {"nil", "ErrInvalidKey"}

\* SetKarg refused a key for its tab character
C11_Witness ==
    /\ op.name = "SetKarg"
    /\ op.err = "ErrInvalidKey"
    /\ \E i \in 1..Len(op.key) : op.key[i] = "\t"
    /\ \A i \in 1..Len(op.key) : op.key[i] # " "

----------------------------------------------------------------------------
(* C12, C13: NewKargs, under SpecParse *)

\* C12: parsing never fails: NewKargs returns a collection for every input,
\* malformed quoting included, without a fault.
C12_ParseNeverFails == op.name = "NewKargs" => op.err # "panic"

\* the position of the first '=' of token t, 0 when it has none
FirstEq(t) ==
    IF \E i \in 1..Len(t) : t[i] = "="
    THEN CHOOSE i \in 1..Len(t) : t[i] = "=" /\ \A j \in 1..(i - 1) : t[j] # "="
    ELSE 0

\* the text of token t before its first '=', the whole token when it has none
TokenKey(t) == IF FirstEq(t) = 0 THEN t ELSE SubSeq(t, 1, FirstEq(t) - 1)

\* the text of token t after its first '=', empty when it has none
TokenValue(t) == IF FirstEq(t) = 0 THEN << >> ELSE SubSeq(t, FirstEq(t) + 1, Len(t))

\* the tokens of the input whose canonical key is that of key, in input order
TokensOfKey(in, key) ==
    SelectSeq(doParseFlags(in),
              LAMBDA t : canonicalizeKey(TokenKey(t)) = canonicalizeKey(key))

\* the keys GetKarg is asked for after parsing
QueryKeys == StringsUpTo({"a", "-", "_"}, 2)

\* C13: on a freshly parsed collection GetKarg(key) returns the dequoted values
\* of the tokens whose canonical key is canonical(key), in input order, and
\* present = true iff there is such a token; a token without '=' gives "".
C13_GetAfterParse ==
    Parsed =>
        \A key \in QueryKeys :
            LET toks == TokensOfKey(input, key) IN
            GetKarg(k, key) =
                [vals |-> [i \in 1..Len(toks) |-> dequote(TokenValue(toks[i]))],
                 present |-> Len(toks) >= 1]

\* a bare "-" and a "-=a" were parsed: GetKarg("_") is (["", "a"], true) and
\* the key "a" is absent
C13_Witness ==
    /\ Parsed
    /\ GetKarg(k, <<"_">>) = [vals |-> << << >>, <<"a">> >>, present |-> TRUE]
    /\ GetKarg(k, <<"a">>) = [vals |-> << >>, present |-> FALSE]

----------------------------------------------------------------------------
(* C14: FlagsForModule, under SpecModule *)

\* argument i of kargs is the first of its canonical key, and that key starts
\* with the canonical module name followed by a dot
IsModuleFlag(kargs, i, name) ==
    LET prefix == Append(canonicalizeKey(name), ".") IN
    /\ Len(kargs[i].CanonicalKey) >= Len(prefix)
    /\ \A j \in 1..Len(prefix) : kargs[i].CanonicalKey[j] = prefix[j]
    /\ \A j \in 1..(i - 1) : kargs[j].CanonicalKey # kargs[i].CanonicalKey

\* the entry of argument a for the module: suffix, or suffix=value
ModuleEntry(a, name) ==
    LET suffix == SubSeq(a.CanonicalKey, Len(name) + 2, Len(a.CanonicalKey)) IN
    IF a.Value = << >> THEN suffix ELSE suffix \o <<"=">> \o a.Value

RECURSIVE ModuleEntries(_, _, _)
\* the entries of the module's flags among the arguments from i on
ModuleEntries(kargs, i, name) ==
    IF i > Len(kargs) THEN << >>
    ELSE (IF IsModuleFlag(kargs, i, name)
          THEN <<ModuleEntry(kargs[i], name)>> ELSE << >>)
         \o ModuleEntries(kargs, i + 1, name)

\* C14: FlagsForModule(name) is the space-joined list, in sequence order, of one
\* entry per distinct canonical key starting with canonical(name) + "." (first
\* occurrence wins), suffix or suffix=value; it is empty when no key matches,
\* and names differing only in '-' versus '_' give the same result.
C14_FlagsForModule ==
    op.name = "FlagsForModule" =>
        /\ op.value = Join(ModuleEntries(KargsOf(k), 1, op.key), <<" ">>)
        /\ (\A i \in 1..Len(KargsOf(k)) : ~IsModuleFlag(KargsOf(k), i, op.key))
               => op.value = << >>
        /\ \A other \in ModuleNames :
               canonicalizeKey(other) = canonicalizeKey(op.key)
                   => FlagsForModule(k, other) = op.value

\* "m-n.x m_n.x=v m_n.y-z=w": FlagsForModule("m-n") = "x y_z=w"
C14_Witness ==
    /\ op.name = "FlagsForModule"
    /\ op.key = <<"m", "-", "n">>
    /\ k.numParams = 3
    /\ op.value = <<"x", " ", "y", "_", "z", "=", "w">>

----------------------------------------------------------------------------
(* C15 .. C18: the invariants of the collection, under Spec *)

\* the canonical keys of the arguments in the sequence
KeysInSequence(kk) == {KargsOf(kk)[i].CanonicalKey : i \in 1..Len(KargsOf(kk))}

\* C15: for every canonical key, its bucket holds exactly the arguments
\* reachable from the list head with that key, each once, in sequence order.
C15_IndexMatchesSequence ==
    \A ck \in (DOMAIN k.keyMap) \cup KeysInSequence(k) :
        Bucket(k.keyMap, ck) =
            SelectSeq(Walk(k), LAMBDA p : k.items[p].karg.CanonicalKey = ck)

\* C16: the index has no empty bucket, so ContainsKarg(key) is true iff an
\* argument of that canonical key is in the sequence.
C16_NoEmptyBucket ==
    /\ \A ck \in DOMAIN k.keyMap : Len(k.keyMap[ck]) > 0
    /\ \A key \in Keys :
           ContainsKarg(k, key) <=> canonicalizeKey(key) \in KeysInSequence(k)

\* C17: numParams is the number of arguments reachable from the list head.
C17_CountIsLength == k.numParams = Len(Walk(k))

\* C18: last is nil exactly when list is nil, and otherwise last is the final
\* argument reached from list by following next.
C18_LastIsTail ==
    /\ k.last = Nil <=> k.list = Nil
    /\ k.list # Nil => k.last = Walk(k)[Len(Walk(k))]

----------------------------------------------------------------------------
(* SpecQuote: enquote and dequote applied to every string up to MaxQuoteLen *)
(* over QuoteAlphabet; dequote is applied to the input itself or to the     *)
(* result of enquote.  op.key is the argument of the last call and op.value *)
(* its result; nops counts the calls.                                       *)

MaxQuoteLen == 4

\* the characters enquote and dequote tell apart, and one they do not
QuoteAlphabet == {"a", SP, TAB, DQ, SQ, BS}

InitQuote ==
    /\ input \in StringsUpTo(QuoteAlphabet, MaxQuoteLen)
    /\ k = EmptyKargs
    /\ op = NoOp
    /\ pre = EmptyKargs
    /\ nops = 0

\* enquote(input)
enquoteCall ==
    /\ op.name = "none"
    /\ op' = [name |-> "enquote", key |-> input, value |-> enquote(input), err |-> "nil"]
    /\ nops' = nops + 1
    /\ UNCHANGED <<input, k, pre>>

\* dequote(input), or dequote of what enquote returned
dequoteCall ==
    /\ op.name \in {"none", "enquote"}
    /\ LET line == IF op.name = "none" THEN input ELSE op.value IN
       op' = [name |-> "dequote", key |-> line,
              value |-> IF dequotePanics(line) THEN << >> ELSE dequote(line),
              err |-> IF dequotePanics(line) THEN "panic" ELSE "nil"]
    /\ nops' = nops + 1
    /\ UNCHANGED <<input, k, pre>>

NextQuote == enquoteCall \/ dequoteCall

SpecQuote == InitQuote /\ [][NextQuote]_vars

----------------------------------------------------------------------------
(* C19, C20: parseToStruct and doParse, under SpecParse *)

\* C19: the parsed sequence holds one argument per token, in input order, with
\* Raw the token verbatim, Key the text before the first '=', Value the dequoted
\* text after it; numParams is the number of tokens and each bucket holds as
\* many entries as there are tokens of its canonical key.
C19_ParseBuildsInOrder ==
    Parsed =>
        LET toks == doParseFlags(input) IN
        /\ Len(KargsOf(k)) = Len(toks)
        /\ \A i \in 1..Len(toks) :
               /\ KargsOf(k)[i].Raw = toks[i]
               /\ KargsOf(k)[i].Key = TokenKey(toks[i])
               /\ KargsOf(k)[i].Value = dequote(TokenValue(toks[i]))
        /\ k.numParams = Len(toks)
        /\ \A key \in (DOMAIN k.keyMap) \cup QueryKeys :
               Len(Bucket(k.keyMap, canonicalizeKey(key))) = Len(TokensOfKey(input, key))

\* "a a==" and its like: a bare token, then a token of the same key whose value
\* is the text after the first '='
C19_Witness ==
    /\ Parsed
    /\ Len(KargsOf(k)) = 2
    /\ KargsOf(k)[1].Value = << >>
    /\ KargsOf(k)[2].Key = KargsOf(k)[1].Key
    /\ KargsOf(k)[2].Value = <<"=">>
    /\ Len(k.keyMap[KargsOf(k)[1].CanonicalKey]) = 2

\* the positions of s where a token starts: not a separator, and first or
\* right after a separator
TokenStarts(s) ==
    {i \in 1..Len(s) : ~IsSeparator(s, i) /\ (i = 1 \/ IsSeparator(s, i - 1))}

\* the last position of the token that starts at i
TokenEnd(s, i) ==
    CHOOSE j \in i..Len(s) :
        /\ \A m \in i..j : ~IsSeparator(s, m)
        /\ j = Len(s) \/ IsSeparator(s, j + 1)

\* the n-th token start of s
NthStart(s, n) ==
    CHOOSE i \in TokenStarts(s) : Cardinality({j \in TokenStarts(s) : j < i}) = n - 1

\* the maximal runs of s without a separator, in input order
SpanTokens(s) ==
    [n \in 1..Cardinality(TokenStarts(s)) |->
        SubSeq(s, NthStart(s, n), TokenEnd(s, NthStart(s, n)))]

\* C20: a whitespace character separates tokens iff it lies outside every quoted
\* span (opened by a quotation mark met while no span is open, closed by the
\* next occurrence of that mark, a backslash before it notwithstanding); tokens
\* come in input order and none is empty.
C20_QuoteAwareSplit ==
    op.name = "NewKargs" =>
        /\ doParseFlags(input) = SpanTokens(input)
        /\ \A i \in 1..Len(doParseFlags(input)) : Len(doParseFlags(input)[i]) > 0

\* two tokens, the second opened by a quotation mark that follows a backslash
\* and holding a whitespace character inside its span
C20_Witness ==
    /\ op.name = "NewKargs"
    /\ Len(doParseFlags(input)) = 2
    /\ \E i \in 2..Len(input) :
           /\ input[i - 1] = "\\"
           /\ input[i] \in {"\"", "'"}
           /\ LastQuoteAfter(input, i) = input[i]
           /\ \E j \in (i + 1)..Len(input) :
                  IsSpace(input[j]) /\ ~IsSeparator(input, j)

----------------------------------------------------------------------------
(* C21..C23: enquote and dequote, under SpecQuote *)

\* s starts with a single or double quote and ends with that same character
OuterQuoted(s) == Len(s) >= 2 /\ s[1] \in {"\"", "'"} /\ s[Len(s)] = s[1]

\* s without its first and last character
Inner(s) == SubSeq(s, 2, Len(s) - 1)

RECURSIVE Escaped(_)
\* s with a backslash put before every double quote and every backslash
Escaped(s) ==
    IF Len(s) = 0 THEN << >>
    ELSE (IF s[1] \in {"\"", "\\"} THEN <<"\\", s[1]>> ELSE <<s[1]>>) \o Escaped(Tail(s))

HasSpace(s) == \E i \in 1..Len(s) : s[i] = " "

\* C21: enquote(s) is s when s has no space, s when s has a space and is wrapped
\* in a matching pair of quote marks, and otherwise s in double quotes with
\* every double quote and backslash escaped.
C21_Enquote ==
    op.name = "enquote" =>
        op.value = IF ~HasSpace(op.key) THEN op.key
                   ELSE IF OuterQuoted(op.key) THEN op.key
                   ELSE <<"\"">> \o Escaped(op.key) \o <<"\"">>

\* C22: dequote(s) is s unless s is wrapped in a matching pair of quote marks;
\* when it is, and holds no other quote or backslash, dequote(s) is s without
\* its first and last character.
C22_Dequote ==
    (op.name = "dequote" /\ op.err = "nil") =>
        /\ ~OuterQuoted(op.key) => op.value = op.key
        /\ (/\ OuterQuoted(op.key)
            /\ \A i \in 1..Len(Inner(op.key)) : Inner(op.key)[i] \notin {"\"", "'", "\\"})
               => op.value = Inner(op.key)

\* C23: for every s that holds a space and is not wrapped in a matching pair of
\* quote marks, dequote(enquote(s)) = s.
C23_DequoteEnquote ==
    (op.name = "dequote" /\ nops = 2 /\ op.err = "nil"
        /\ HasSpace(input) /\ ~OuterQuoted(input)) => op.value = input

----------------------------------------------------------------------------
(* C24..C27: invariants, frame and termination, under Spec *)

\* C24: for every argument of the sequence, the text of Raw before its first
\* '=' is Key, and the dequoted text after it (empty without '=') is Value.
C24_RawFaithful ==
    Running =>
        \A i \in 1..Len(KargsOf(k)) :
            /\ TokenKey(KargsOf(k)[i].Raw) = KargsOf(k)[i].Key
            /\ dequote(TokenValue(KargsOf(k)[i].Raw)) = KargsOf(k)[i].Value

\* C25: every argument of the sequence has CanonicalKey equal to Key with '-'
\* replaced by '_', and its item is in the bucket of that CanonicalKey.
C25_CanonicalKey ==
    Running =>
        \A i \in 1..Len(Walk(k)) :
            LET a == k.items[Walk(k)[i]].karg IN
            /\ a.CanonicalKey = [j \in 1..Len(a.Key) |-> IF a.Key[j] = "-" THEN "_" ELSE a.Key[j]]
            /\ \E j \in 1..Len(Bucket(k.keyMap, a.CanonicalKey)) :
                   k.keyMap[a.CanonicalKey][j] = Walk(k)[i]

\* C26: SetKarg, DeleteKarg and DeleteKargByValue with a key leave GetKarg and
\* ContainsKarg of every key of another canonical form as they were.
C26_PerKeyFrame ==
    (op.name \in {"SetKarg", "DeleteKarg", "DeleteKargByValue"} /\ Running) =>
        \A key \in SetKeys :
            canonicalizeKey(key) # OpKey =>
                /\ GetKarg(k, key) = GetKarg(pre, key)
                /\ ContainsKarg(k, key) = ContainsKarg(pre, key)

\* SetKarg collapsed a key of two entries while another key stays present
C26_Witness ==
    /\ SetOk
    /\ Len(Bucket(pre.keyMap, OpKey)) = 2
    /\ \E key \in SetKeys :
           /\ canonicalizeKey(key) # OpKey
           /\ ContainsKarg(k, key)
           /\ Len(GetKarg(k, key).vals) = 1

RECURSIVE NthNext(_, _, _)
\* the item n next-steps after p, Nil once the chain has ended
NthNext(items, p, n) ==
    IF p = 0 \/ n = 0 THEN p ELSE NthNext(items, items[p].next, n - 1)

\* C27: the chain of next pointers from list ends after at most as many steps
\* as there are items, and the traversal meets no item twice.
C27_TraversalTerminates ==
    Running =>
        /\ \E n \in 0..Len(k.items) : NthNext(k.items, k.list, n) = 0
        /\ \A i, j \in 1..Len(Walk(k)) : Walk(k)[i] = Walk(k)[j] => i = j

\* SetKarg replaced an entry that had a successor, and the traversal still
\* meets two items or more
C27_Witness ==
    /\ SetOk
    /\ Len(Bucket(pre.keyMap, OpKey)) >= 1
    /\ pre.items[pre.keyMap[OpKey][1]].next # 0
    /\ Len(Walk(k)) >= 2

====
